---- MODULE Spec2Model ----
(***************************************************************************)
(* Model of Contents/Scripts/watched-sync.py: the one-shot script that     *)
(* relays watched states from Plex (media server) to Shoko (tracking       *)
(* server).  The script is sequential; pc is its position, the remote      *)
(* services' answers are chosen nondeterministically at each call.         *)
(***************************************************************************)
EXTENDS Integers, Sequences, FiniteSets, TLC

VARIABLES
    argv,           \* sys.argv[1:], each argument a sequence of characters
    cfg,            \* config.py: cfg.Plex['ExtraUsers'], cfg.Plex['LibraryNames']
    pc,             \* position of the script
    relative_date,  \* line 40/43
    exitCode,       \* exit status of the process (0 unless exit(1) or a traceback)
    exitReason,     \* which statement ended the run
    netCalls,       \* kinds of network calls issued so far
    adminAuth,      \* outcome of MyPlexAccount(...) for the primary account (line 51/53)
    unresolved,     \* extra users the media server could not resolve
    userErrors,     \* number of 'Failed:' lines printed by line 66
    accounts,       \* line 59/64
    auth,           \* line 70, the decoded /api/auth answer
    ai,             \* index of `account` in accounts (line 80)
    li,             \* index of `library` in LibraryNames (line 88)
    anime,          \* line 91, the library section last resolved
    visited,        \* (account, library) pairs announced by line 89
    libraryFailed,  \* line 93 has printed a 'Failed' line in this run
    nEpisodes,      \* length of the list returned by searchEpisodes (line 97), 0 outside the loop
    ei,             \* index of `episode`
    nParts,         \* number of parts iterParts yields for the episode (line 98)
    pi,             \* index of `episode_path`
    path_ends_with, \* line 100
    lastLookup,     \* the last GET of the current episode: its part and the answer
    idx,            \* index of `EpisodeID` in the first series group (line 104)
    writes,         \* POSTs issued for the part of lastLookup
    relayFailed,    \* line 107 printed for the part of lastLookup
    completed       \* number of 'Watched Sync Complete' lines (line 109)

vars == <<argv, cfg, pc, relative_date, exitCode, exitReason, netCalls,
          adminAuth, unresolved, userErrors, accounts, auth, ai, li, anime, visited,
          libraryFailed, nEpisodes, ei, nParts, pi, path_ends_with,
          lastLookup, idx, writes, relayFailed, completed>>

-----------------------------------------------------------------------------
(* Bounds *)
MaxArgLen == 4
MaxExtraUsers == 2
MaxLibraries == 2
MaxEpisodes == 1
MaxParts == 1
MaxEpisodeIDs == 2

-----------------------------------------------------------------------------
(* The relative date argument, lines 39-46 *)

LF == "\n"
Digit19 == {"1", "2", "3", "4", "5", "6", "7", "8", "9"}
Digit09 == Digit19 \cup {"0"}
\* (?:m|h|d|w|mon|y)
Units == {<<"m">>, <<"h">>, <<"d">>, <<"w">>, <<"m", "o", "n">>, <<"y">>}

\* (?:[1-9]|[1-9][0-9]|[1-9][0-9][0-9]) matched on s[1..n]
NumberAt(s, n) ==
    /\ n \in 1..3
    /\ Len(s) >= n
    /\ s[1] \in Digit19
    /\ \A i \in 2..n : s[i] \in Digit09

\* (?:m|h|d|w|mon|y) matched on s[from..from+Len(u)-1]
UnitAt(s, from, u) ==
    /\ u \in Units
    /\ Len(s) >= from + Len(u) - 1
    /\ SubSeq(s, from, from + Len(u) - 1) = u

\* Python's $ without re.MULTILINE: at the end of the string, or just before
\* the newline that ends the string.
Dollar(s, p) ==
    \/ p = Len(s) + 1
    \/ p = Len(s) /\ s[p] = LF

\* re.match('^(?:[1-9]|[1-9][0-9]|[1-9][0-9][0-9])(?:m|h|d|w|mon|y)$', s)
ReMatch(s) ==
    \E n \in 1..3 : \E u \in Units :
        /\ NumberAt(s, n)
        /\ UnitAt(s, n + 1, u)
        /\ Dollar(s, n + Len(u) + 1)

DefaultRelativeDate == <<"9", "9", "9", "y">>

-----------------------------------------------------------------------------
(* Configuration and the remote services' answers *)

admin == 0
UserNames(n) == [i \in 1..n |-> i]
LibraryList(n) == [i \in 1..n |-> i]

Configs ==
    {[ExtraUsers |-> UserNames(n), LibraryNames |-> LibraryList(m)] :
        n \in 0..MaxExtraUsers, m \in 1..MaxLibraries}

\* How the media server treats an extra user: admin.user(name) raises,
\* the /switch query raises, or MyPlexAccount(token=...) raises.
UserOutcomes == {"ok", "notFound", "switchFailed", "tokenRejected"}

\* Decoded JSON bodies of POST /api/auth
AuthAnswers ==
    {[apikey |-> "key"], [status |-> 400], [status |-> 401], [status |-> 500]}
NoAuth == [unset |-> TRUE]

None == "None"
WatchedStates == {None, "true", "false"}

\* SeriesIDs with m series groups, the first holding n episode identifiers
SeriesGroups(m, n) ==
    [s \in 1..m |->
        [EpisodeIDs |-> [k \in 1..(IF s = 1 THEN n ELSE 1) |-> s * 10 + k]]]

SeriesIDSets == {SeriesGroups(m, n) : m \in 0..2, n \in 0..MaxEpisodeIDs}

Files == [Watched : WatchedStates, SeriesIDs : SeriesIDSets]

OtherFile == [Watched |-> None, SeriesIDs |-> <<[EpisodeIDs |-> <<91>>]>>]

\* Answers with a second match behind the first
TwoMatches ==
    {<<f, OtherFile>> : f \in {g \in Files : g.SeriesIDs = SeriesGroups(1, 1)}}

\* Decoded JSON bodies of GET /api/v3/File/PathEndsWith: no match, one, two
LookupAnswers == {<<>>} \cup {<<f>> : f \in Files} \cup TwoMatches

NoLookup == [part |-> <<0, 0, 0, 0>>, answer |-> <<>>]

-----------------------------------------------------------------------------
Chars == {"0", "1", "d", "m", "o", "n", "x", LF}
ArgStrings == UNION {[1..n -> Chars] : n \in 0..MaxArgLen}

SampleArgv ==
    {<<>>, <<<<"5", "x">>>>}

InitWith(args) ==
    /\ argv \in args
    /\ cfg \in Configs
    /\ pc = "arguments"
    /\ relative_date = DefaultRelativeDate
    /\ exitCode = 0
    /\ exitReason = "running"
    /\ netCalls = {}
    /\ adminAuth = "none"
    /\ unresolved = {}
    /\ userErrors = 0
    /\ accounts = <<>>
    /\ auth = NoAuth
    /\ ai = 0
    /\ li = 0
    /\ anime = <<>>
    /\ visited = <<>>
    /\ libraryFailed = FALSE
    /\ nEpisodes = 0
    /\ ei = 0
    /\ nParts = 0
    /\ pi = 0
    /\ path_ends_with = <<>>
    /\ lastLookup = NoLookup
    /\ idx = 0
    /\ writes = <<>>
    /\ relayFailed = FALSE
    /\ completed = 0

Init == InitWith(SampleArgv)

\* exit(1), or an uncaught exception ending the interpreter with status 1
Exit(reason) ==
    /\ pc' = "done"
    /\ exitCode' = 1
    /\ exitReason' = reason

Running(next) ==
    /\ pc' = next
    /\ UNCHANGED <<exitCode, exitReason>>

-----------------------------------------------------------------------------
(* Lines 39-46 *)
CheckArguments ==
    /\ pc = "arguments"
    /\ IF Len(argv) = 1
       THEN IF ReMatch(argv[1])
            THEN /\ relative_date' = argv[1]
                 /\ Running("plex")
            ELSE /\ Exit("InvalidArgument")
                 /\ UNCHANGED relative_date
       ELSE /\ Running("plex")
            /\ UNCHANGED relative_date
    /\ UNCHANGED <<argv, cfg, netCalls, adminAuth, unresolved, userErrors,
                   accounts, auth, ai, li, anime, visited, libraryFailed,
                   nEpisodes, ei, nParts, pi, path_ends_with, lastLookup,
                   idx, writes, relayFailed, completed>>

(* Lines 48-56 *)
PlexAuthenticate ==
    /\ pc = "plex"
    /\ netCalls' = netCalls \cup {"plex.account"}
    /\ \E ok \in BOOLEAN :
        IF ok
        THEN /\ adminAuth' = "ok"
             /\ accounts' = <<admin>>       \* line 59
             /\ Running("users")
        ELSE /\ adminAuth' = "raised"
             /\ Exit("PlexCredentials")
             /\ UNCHANGED accounts
    /\ UNCHANGED <<argv, cfg, relative_date, unresolved, userErrors, auth,
                   ai, li, anime, visited, libraryFailed, nEpisodes, ei,
                   nParts, pi, path_ends_with, lastLookup, idx, writes,
                   relayFailed, completed>>

\* The accounts appended by line 64 before the try block of lines 61-66 ends:
\* the two comprehensions of lines 62-63 run over every user before any
\* account is appended, and an exception anywhere leaves the block.
Appended(users, outcome) ==
    IF \E i \in 1..Len(users) : outcome[i] \in {"notFound", "switchFailed"}
    THEN <<>>
    ELSE LET bad == {i \in 1..Len(users) : outcome[i] = "tokenRejected"}
             stop == IF bad = {} THEN Len(users) + 1
                     ELSE CHOOSE i \in bad : \A j \in bad : i <= j
         IN  SubSeq(users, 1, stop - 1)

(* Lines 58-66 *)
AddExtraUsers ==
    /\ pc = "users"
    /\ IF cfg.ExtraUsers # <<>>
       THEN \E outcome \in [1..Len(cfg.ExtraUsers) -> UserOutcomes] :
            /\ unresolved' = {cfg.ExtraUsers[i] : i \in {j \in 1..Len(cfg.ExtraUsers) : outcome[j] # "ok"}}
            /\ accounts' = accounts \o Appended(cfg.ExtraUsers, outcome)
            /\ userErrors' = IF \E i \in 1..Len(cfg.ExtraUsers) : outcome[i] # "ok"
                             THEN userErrors + 1 ELSE userErrors
            /\ netCalls' = netCalls \cup {"plex.user"}
       ELSE UNCHANGED <<unresolved, accounts, userErrors, netCalls>>
    /\ Running("shoko")
    /\ UNCHANGED <<argv, cfg, relative_date, adminAuth, auth, ai, li, anime,
                   visited, libraryFailed, nEpisodes, ei, nParts, pi,
                   path_ends_with, lastLookup, idx, writes, relayFailed,
                   completed>>

\* A slip that treats only 401 as a rejection
Rejected_Only401(answer) == "status" \in DOMAIN answer /\ answer.status = 401

\* Line 74: 'status' in auth and auth['status'] in (400, 401)
Rejected(answer) == "status" \in DOMAIN answer /\ answer.status \in {400, 401}

(* Lines 68-76 *)
ShokoAuthenticate ==
    /\ pc = "shoko"
    /\ netCalls' = netCalls \cup {"shoko.auth"}
    /\ \/ /\ Exit("ShokoConnect")            \* requests.post or .json() raises
          /\ auth' = [exception |-> TRUE]
          /\ UNCHANGED ai
       \/ \E answer \in AuthAnswers :
          /\ auth' = answer
          /\ IF Rejected(answer)
             THEN /\ Exit("ShokoCredentials")
                  /\ UNCHANGED ai
             ELSE /\ Running("account")
                  /\ ai' = 1
    /\ UNCHANGED <<argv, cfg, relative_date, adminAuth, unresolved,
                   userErrors, accounts, li, anime, visited, libraryFailed,
                   nEpisodes, ei, nParts, pi, path_ends_with, lastLookup,
                   idx, writes, relayFailed, completed>>

-----------------------------------------------------------------------------
(* Lines 78-109: the sync loops *)

Account == accounts[ai]
Library == cfg.LibraryNames[li]
Part == <<ai, li, ei, pi>>

\* What every action of the episode loops leaves alone
Setup == <<argv, cfg, relative_date, adminAuth, unresolved, userErrors,
           accounts, auth>>

(* Lines 80-85 *)
ConnectAccount ==
    /\ pc = "account"
    /\ ai <= Len(accounts)
    /\ netCalls' = netCalls \cup {"plex.resource"}
    /\ \E ok \in BOOLEAN :
        IF ok
        THEN /\ li' = 1
             /\ Running("library")
        ELSE /\ Exit("ServerName")
             /\ UNCHANGED li
    /\ UNCHANGED <<Setup, ai, anime, visited, libraryFailed, nEpisodes, ei,
                   nParts, pi, path_ends_with, lastLookup, idx, writes,
                   relayFailed, completed>>

(* Line 109, reached when the loop of line 80 is exhausted *)
Complete ==
    /\ pc = "account"
    /\ ai > Len(accounts)
    /\ completed' = completed + 1
    /\ pc' = "done"
    /\ exitReason' = "Complete"
    /\ UNCHANGED <<Setup, exitCode, netCalls, ai, li, anime, visited,
                   libraryFailed, nEpisodes, ei, nParts, pi, path_ends_with,
                   lastLookup, idx, writes, relayFailed>>

\* A slip that drops the `continue` of line 94
SectionFailed_NoContinue ==
    /\ libraryFailed' = TRUE
    /\ pc' = "search"
    /\ UNCHANGED <<li, anime>>

\* Lines 92-94: the section lookup raised; print, then the next library
SectionFailed ==
    /\ libraryFailed' = TRUE
    /\ li' = li + 1
    /\ pc' = "library"
    /\ UNCHANGED anime

(* Lines 88-94 *)
QuerySection ==
    /\ pc = "library"
    /\ li <= Len(cfg.LibraryNames)
    /\ visited' = Append(visited, <<Account, Library>>)     \* line 89
    /\ netCalls' = netCalls \cup {"plex.section"}
    /\ \E ok \in BOOLEAN :
        IF ok
        THEN /\ anime' = <<Account, Library>>
             /\ pc' = "search"
             /\ UNCHANGED <<li, libraryFailed>>
        ELSE SectionFailed
    /\ UNCHANGED <<Setup, exitCode, exitReason, ai, nEpisodes, ei, nParts,
                   pi, path_ends_with, lastLookup, idx, writes, relayFailed,
                   completed>>

(* The loop of line 88 is exhausted: back to line 80 *)
NextAccount ==
    /\ pc = "library"
    /\ li > Len(cfg.LibraryNames)
    /\ ai' = ai + 1
    /\ pc' = "account"
    /\ UNCHANGED <<Setup, exitCode, exitReason, netCalls, li, anime, visited,
                   libraryFailed, nEpisodes, ei, nParts, pi, path_ends_with,
                   lastLookup, idx, writes, relayFailed, completed>>

(* Line 97: the search is outside every try block *)
SearchEpisodes ==
    /\ pc = "search"
    /\ netCalls' = netCalls \cup {"plex.search"}
    /\ \/ /\ Exit("Uncaught")
          /\ UNCHANGED <<nEpisodes, ei>>
       \/ \E n \in 0..MaxEpisodes :
          /\ nEpisodes' = n
          /\ ei' = 1
          /\ Running("episode")
    /\ UNCHANGED <<Setup, ai, li, anime, visited, libraryFailed, nParts, pi,
                   path_ends_with, lastLookup, idx, writes, relayFailed,
                   completed>>

(* Lines 97-98: the next episode and its parts *)
NextEpisode ==
    /\ pc = "episode"
    /\ ei <= nEpisodes
    /\ \E n \in 1..MaxParts : nParts' = n
    /\ pi' = 1
    /\ pc' = "part"
    /\ UNCHANGED <<Setup, exitCode, exitReason, netCalls, ai, li, anime,
                   visited, libraryFailed, nEpisodes, ei, path_ends_with,
                   lastLookup, idx, writes, relayFailed, completed>>

(* Line 108, reached when the loop of line 97 is exhausted *)
FinishLibrary ==
    /\ pc = "episode"
    /\ ei > nEpisodes
    /\ nEpisodes' = 0
    /\ ei' = 0
    /\ li' = li + 1
    /\ pc' = "library"
    /\ UNCHANGED <<Setup, exitCode, exitReason, netCalls, ai, anime, visited,
                   libraryFailed, nParts, pi, path_ends_with, lastLookup,
                   idx, writes, relayFailed, completed>>

(* The loop of line 98 is exhausted: back to line 97.  The iterator is    *)
(* gone and the record of the last part is closed; path_ends_with stays. *)
EndParts ==
    /\ pc = "part"
    /\ pi > nParts
    /\ ei' = ei + 1
    /\ nParts' = 0
    /\ pi' = 0
    /\ lastLookup' = NoLookup
    /\ writes' = <<>>
    /\ relayFailed' = FALSE
    /\ pc' = "episode"
    /\ UNCHANGED <<Setup, exitCode, exitReason, netCalls, ai, li, anime,
                   visited, libraryFailed, nEpisodes, path_ends_with, idx,
                   completed>>

\* A slip that relays whatever is not already watched
ShouldRelay_NotWatched(answer) == answer[1].Watched # "true"

\* Line 101: path_ends_with[0]['Watched'] == None
ShouldRelay(answer) == answer[1].Watched = None

\* A slip that keeps the first answer instead of replacing it
Assigned_Cached(old, answer) == IF old = <<>> THEN answer ELSE old

\* Line 100, the assignment to path_ends_with
Assigned(old, answer) == answer

(* Lines 99-102: the lookup and the decision, outside every try block *)
Lookup ==
    /\ pc = "part"
    /\ pi <= nParts
    /\ IF "apikey" \notin DOMAIN auth
       THEN \* auth["apikey"] raises KeyError while the URL is built
            /\ Exit("Uncaught")
            /\ UNCHANGED <<netCalls, path_ends_with, lastLookup, idx, writes,
                           relayFailed, pi>>
       ELSE /\ netCalls' = netCalls \cup {"shoko.lookup"}
            /\ \/ \* requests.get or .json() raises
                  /\ Exit("Uncaught")
                  /\ UNCHANGED <<path_ends_with, lastLookup, idx, writes,
                                 relayFailed, pi>>
               \/ \E answer \in LookupAnswers :
                  /\ path_ends_with' = Assigned(path_ends_with, answer)
                  /\ lastLookup' = [part |-> Part, answer |-> answer]
                  /\ writes' = <<>>
                  /\ relayFailed' = FALSE
                  /\ IF path_ends_with' = <<>>
                     THEN \* path_ends_with[0] raises IndexError
                          /\ Exit("Uncaught")
                          /\ UNCHANGED <<idx, pi>>
                     ELSE IF ShouldRelay(path_ends_with')
                          THEN /\ idx' = 1
                               /\ Running("relay")
                               /\ UNCHANGED pi
                          ELSE /\ pi' = pi + 1
                               /\ Running("part")
                               /\ UNCHANGED idx
    /\ UNCHANGED <<Setup, ai, li, anime, visited, libraryFailed, nEpisodes,
                   ei, nParts, completed>>

\* A slip that takes the last series group
EpisodeIDs_LastGroup(p) == p[1].SeriesIDs[Len(p[1].SeriesIDs)].EpisodeIDs

\* Line 104: path_ends_with[0]['SeriesIDs'][0]['EpisodeIDs']
EpisodeIDs(p) == p[1].SeriesIDs[1].EpisodeIDs

\* A slip that posts to .../Watched/false
WriteCall_Unwatched(id, part) == [id |-> id, watched |-> FALSE, part |-> part]

\* Line 105: POST /api/v3/Episode/{EpisodeID["ID"]}/Watched/true
WriteCall(id, part) == [id |-> id, watched |-> TRUE, part |-> part]

(* Lines 104-107: one POST of the relay loop *)
RelayWrite ==
    /\ pc = "relay"
    /\ path_ends_with[1].SeriesIDs # <<>>
    /\ idx <= Len(EpisodeIDs(path_ends_with))
    /\ writes' = Append(writes, WriteCall(EpisodeIDs(path_ends_with)[idx], Part))
    /\ netCalls' = netCalls \cup {"shoko.write"}
    /\ \E ok \in BOOLEAN :
        IF ok
        THEN /\ idx' = idx + 1
             /\ pc' = "relay"
             /\ UNCHANGED <<relayFailed, pi>>
        ELSE \* requests.post raises: line 107, then the next part
             /\ relayFailed' = TRUE
             /\ pi' = pi + 1
             /\ pc' = "part"
             /\ idx' = 0
    /\ UNCHANGED <<Setup, exitCode, exitReason, ai, li, anime, visited,
                   libraryFailed, nEpisodes, ei, nParts, path_ends_with,
                   lastLookup, completed>>

(* Lines 104, 106-107: SeriesIDs is empty, SeriesIDs[0] raises IndexError *)
RelayUnmatched ==
    /\ pc = "relay"
    /\ path_ends_with[1].SeriesIDs = <<>>
    /\ relayFailed' = TRUE
    /\ idx' = 0
    /\ pi' = pi + 1
    /\ pc' = "part"
    /\ UNCHANGED <<Setup, exitCode, exitReason, netCalls, ai, li, anime,
                   visited, libraryFailed, nEpisodes, ei, nParts,
                   path_ends_with, lastLookup, writes, completed>>

(* The loop of line 104 is exhausted: back to line 98 *)
RelayEnd ==
    /\ pc = "relay"
    /\ path_ends_with[1].SeriesIDs # <<>>
    /\ idx > Len(EpisodeIDs(path_ends_with))
    /\ idx' = 0
    /\ pi' = pi + 1
    /\ pc' = "part"
    /\ UNCHANGED <<Setup, exitCode, exitReason, netCalls, ai, li, anime,
                   visited, libraryFailed, nEpisodes, ei, nParts,
                   path_ends_with, lastLookup, writes, relayFailed,
                   completed>>

Next ==
    \/ CheckArguments
    \/ PlexAuthenticate
    \/ AddExtraUsers
    \/ ShokoAuthenticate
    \/ ConnectAccount
    \/ Complete
    \/ QuerySection
    \/ NextAccount
    \/ SearchEpisodes
    \/ NextEpisode
    \/ FinishLibrary
    \/ EndParts
    \/ Lookup
    \/ RelayWrite
    \/ RelayUnmatched
    \/ RelayEnd

Spec == Init /\ [][Next]_vars

\* Every argument string over Chars up to MaxArgLen, alone or followed by a
\* second argument, with the smallest configuration
InitArguments ==
    /\ InitWith({<<s>> : s \in ArgStrings}
                 \cup {<<s, t>> : s \in {<<"0", "d">>, <<"1", "x">>}, t \in {<<"1", "d">>}})
    /\ cfg.ExtraUsers = <<>>
    /\ Len(cfg.LibraryNames) = 1

SpecArguments == InitArguments /\ [][Next]_vars

-----------------------------------------------------------------------------
(* Properties *)

Range(f) == {f[i] : i \in DOMAIN f}

Answer == lastLookup.answer
Matched == Answer # <<>>

\* Every episode identifier an answer holds, in any series group of any match
IdsOf(answer) ==
    UNION {Range(g.EpisodeIDs) : g \in UNION {Range(f.SeriesIDs) : f \in Range(answer)}}

\* The identifiers under the first series group of the first match
FirstGroup(answer) ==
    IF answer[1].SeriesIDs = <<>> THEN <<>> ELSE answer[1].SeriesIDs[1].EpisodeIDs

WrittenIds == [i \in 1..Len(writes) |-> writes[i].id]

IsPrefix(ws, g) == Len(ws) <= Len(g) /\ \A i \in 1..Len(ws) : ws[i] = g[i]

\* The part last looked up has been left: the script is at the top of the
\* loop of line 98 again
PartDone == pc = "part" /\ lastLookup.part = <<ai, li, ei, pi - 1>>

\* Every (account, library) pair, accounts outer, libraries inner
AllPairs ==
    LET nl == Len(cfg.LibraryNames)
    IN  [k \in 1..(Len(accounts) * nl) |->
            <<accounts[((k - 1) \div nl) + 1], cfg.LibraryNames[((k - 1) % nl) + 1]>>]

SyncCalls == {"plex.search", "shoko.lookup", "shoko.write"}

\* C1: every write the script sends to the tracking server is a
\* 'set watched = true' call for an episode identifier of the lookup answer;
\* no call ever sets watched = false.
C1_OnlyMarksWatched ==
    \A i \in 1..Len(writes) :
        /\ writes[i].watched = TRUE
        /\ writes[i].id \in IdsOf(Answer)

C1_Witness ==
    /\ Len(writes) = 2
    /\ "shoko.write" \in netCalls

\* C2: when the first match of a lookup has a definite watched state (true or
\* false), no write is issued for that file part, however many identifiers
\* the answer holds.
C2_DefiniteIsNoOp ==
    (Matched /\ Answer[1].Watched \in {"true", "false"}) =>
        /\ writes = <<>>
        /\ pc # "relay"

C2_Witness ==
    /\ PartDone
    /\ Matched
    /\ Answer[1].Watched = "false"
    /\ Len(FirstGroup(Answer)) = MaxEpisodeIDs
    /\ writes = <<>>

\* C3 as stated: once a part whose first match is unknown has been handled,
\* exactly one write was issued per identifier of the first series group.
C3_ExactlyOnePerIdentifier ==
    (PartDone /\ Matched /\ Answer[1].Watched = None) =>
        WrittenIds = FirstGroup(Answer)

\* C3 amended: the writes are, in order and without repeats, the identifiers
\* of the first series group up to and including the first one whose POST
\* raises; all of them when no POST raises; never one of another group.
C3_PrefixUntilFailure ==
    /\ (pc = "relay" /\ Matched) =>
           /\ IsPrefix(WrittenIds, FirstGroup(Answer))
           /\ Len(writes) = idx - 1
    /\ (PartDone /\ Matched /\ Answer[1].Watched = None) =>
           IF relayFailed
           THEN /\ IsPrefix(WrittenIds, FirstGroup(Answer))
                /\ FirstGroup(Answer) # <<>> => writes # <<>>
           ELSE WrittenIds = FirstGroup(Answer)

C3_Witness ==
    /\ PartDone
    /\ Matched
    /\ Answer[1].Watched = None
    /\ Len(Answer[1].SeriesIDs) = 2
    /\ ~relayFailed
    /\ Len(writes) = MaxEpisodeIDs

\* C4: a lookup that finds no match for the current file part is caught and
\* the run goes on to the next part.
C4_NoMatchIsRecoverable ==
    (lastLookup.part = Part /\ lastLookup # NoLookup /\ ~Matched) =>
        pc # "done"

\* C5: when exactly one extra user cannot be resolved, one error is logged
\* and the primary account and every other extra user are processed.
C5_OnlyThatUserSkipped ==
    (pc \notin {"arguments", "plex", "users"} /\ adminAuth = "ok"
        /\ Cardinality(unresolved) = 1) =>
        /\ userErrors = 1
        /\ admin \in Range(accounts)
        /\ \A u \in Range(cfg.ExtraUsers) \ unresolved : u \in Range(accounts)

\* <integer 1-999><unit>, unit one of m, h, d, w, mon, y
WellFormed(s) ==
    \E n \in 1..3 : \E u \in Units :
        /\ NumberAt(s, n)
        /\ UnitAt(s, n + 1, u)
        /\ Len(s) = n + Len(u)

\* C6: an argument that is not <integer 1-999><unit> ends the run with
\* status 1 before any network call.
C6_InvalidArgumentExits ==
    (pc # "arguments" /\ Len(argv) = 1 /\ ~WellFormed(argv[1])) =>
        /\ pc = "done"
        /\ exitCode = 1
        /\ netCalls = {}

\* The step of line 89 announced a pair whose section was not resolved
SkipStep ==
    /\ Len(visited') = Len(visited) + 1
    /\ anime' # visited'[Len(visited')]

\* C7: an unresolvable library is skipped with a logged error and without
\* enumeration, lookup or write; the script moves on to the next library,
\* and a run that reaches completion has visited every pair and exits 0.
C7_SkippedLibrary ==
    /\ [](pc \in {"search", "episode", "part", "relay"} =>
            /\ anime = <<Account, Library>>
            /\ visited[Len(visited)] = anime)
    /\ []((pc = "done" /\ exitReason = "Complete") =>
            /\ exitCode = 0
            /\ visited = AllPairs)
    /\ [][SkipStep =>
            /\ libraryFailed'
            /\ pc' = "library"
            /\ ai' = ai
            /\ li' = li + 1
            /\ exitCode' = exitCode
            /\ netCalls' \cap SyncCalls = netCalls \cap SyncCalls]_vars

C7_Witness ==
    /\ pc = "done"
    /\ exitReason = "Complete"
    /\ exitCode = 0
    /\ libraryFailed
    /\ "shoko.write" \in netCalls
    /\ Len(visited) = Len(accounts) * MaxLibraries

\* The primary login raised, the tracking server could not be reached, or it
\* answered 400/401
FatalAuth ==
    \/ adminAuth = "raised"
    \/ "exception" \in DOMAIN auth
    \/ "status" \in DOMAIN auth /\ auth.status \in {400, 401}

\* C8: a failed primary login, an unreachable tracking server or rejected
\* tracking-server credentials end the run with status 1, and no episode
\* enumeration, lookup or write is issued in that run.
C8_FatalAborts ==
    FatalAuth =>
        /\ pc = "done"
        /\ exitCode = 1
        /\ netCalls \cap SyncCalls = {}

C8_Witness ==
    /\ "status" \in DOMAIN auth
    /\ auth.status = 400
    /\ pc = "done"
    /\ accounts # <<>>

\* The fatal conditions: bad argument, media-server or tracking-server
\* authentication or connectivity, server name not found
FatalReasons ==
    {"InvalidArgument", "PlexCredentials", "ShokoConnect", "ShokoCredentials",
     "ServerName"}

\* The run died outside the handling of a file part: the episode search
\* raised, or the tracking server's answer to /api/auth held no key
DiedOutsideRelay ==
    /\ exitReason = "Uncaught"
    /\ pi = 0 \/ "apikey" \notin DOMAIN auth

\* C9: a run without a fatal condition ends having visited every (account,
\* library) pair in order, reported completion once, with exit code 0, also
\* when a user, a library or a file was skipped on the way.
C9_CompletesWithoutFatal ==
    (pc = "done" /\ exitReason \notin FatalReasons /\ ~DiedOutsideRelay) =>
        /\ exitCode = 0
        /\ completed = 1
        /\ visited = AllPairs

\* C10: a write is issued only with the tracking server's key in hand, and
\* only for an identifier of the first series group of the answer to the
\* lookup of the same file part, whose first match is unknown.
C10_WriteFollowsItsLookup ==
    \A i \in 1..Len(writes) :
        /\ "apikey" \in DOMAIN auth
        /\ "shoko.auth" \in netCalls
        /\ writes[i].part = lastLookup.part
        /\ pc = "relay" => writes[i].part = Part
        /\ Matched
        /\ Answer[1].Watched = None
        /\ writes[i].id \in Range(FirstGroup(Answer))

C10_Witness ==
    /\ pc = "relay"
    /\ Len(writes) = 1
    /\ Len(visited) >= 2
    /\ idx = 2

====
